---- MODULE Spec2Model ----
(***************************************************************************)
(* Model of the muse-chat-app backend: the chat controller                 *)
(* (backend/src/controllers/chat.controller.ts) and the message controller *)
(* (message.controller.ts, latest revision).  The document store is the    *)
(* state; every request handler is one action that records the request it  *)
(* served in req and the response it sent in res.                          *)
(*                                                                         *)
(* Every request has passed protectRoute, so its requester is a stored     *)
(* user and req.user._id is that user's ObjectId.  The store starts with   *)
(* the users signed up and no chat or message.  The document store always  *)
(* answers (no handler reaches its catch block through the database); the  *)
(* asset host may fail an upload.  Request bodies are well typed: IDs and  *)
(* texts are strings or absent.                                            *)
(***************************************************************************)
EXTENDS Integers, Sequences, FiniteSets, TLC

\* ------------------------------------------------------------------ bounds
MaxChats == 1
MaxMemberIds == 2
MaxMessages == 2
MaxSignups == 3
MaxListedChats == 2
MaxLeaving == 2

\* ------------------------------------------------------- values of requests
\* A JavaScript value of a request body: undefined, or a string (its chars).
Undefined == [type |-> "undefined", chars |-> <<>>]
Str(s) == [type |-> "string", chars |-> s]

\* An identifier as JavaScript sees it: the hex string of a JSON body, or the
\* ObjectId object that req.user._id is.  A Set tells the two apart.
IdString(h) == [rep |-> "string", hex |-> h]
ObjectId(h) == [rep |-> "ObjectId", hex |-> h]

UserIds == {"u1", "u2", "u3"}

RECURSIVE SeqsUpTo(_, _)
SeqsUpTo(S, n) ==
    IF n = 0 THEN {<<>>}
    ELSE LET shorter == SeqsUpTo(S, n - 1)
         IN  shorter \cup {Append(s, x) : s \in {t \in shorter : Len(t) = n - 1}, x \in S}

\* memberIds of a request body: arrays of ID strings.
MemberIdInputs == SeqsUpTo({IdString(u) : u \in UserIds}, MaxMemberIds)

\* name of a request body.
NameInputs == {Undefined, Str(<<>>), Str(<<" ">>), Str(<<"a">>), Str(<<" ", "b">>)}

\* :chatId of a request: the IDs the store can hand out, and 0, which it never does.
ChatIdInputs == 0 .. MaxChats

\* text of a request body.
TextInputs == {Undefined, Str(<<>>), Str(<<" ">>), Str(<<"a">>), Str(<<" ", "b">>)}

\* image of a request body: absent, or the data of an image.
ImageInputs == {Undefined, Str(<<"i">>)}

\* :messageId of a request.
MessageIdInputs == 1 .. MaxMessages

VARIABLES
    users,      \* the User collection: the IDs of the stored users
    chats,      \* the Chat collection, chats[i] is the chat with _id i
    messages,   \* the Message collection, in storage order
    nextMessageId,  \* the _id the next saved message gets
    req,        \* the request the last handler served
    res,        \* the response the last handler sent
    accounts,   \* the User collection: the document of every stored user, by _id
    nextUserId, \* the position in UserIdOrder of the _id the next new User gets
    signups,    \* the signup requests between their email lookup and their save
    issued,     \* the session tokens generateToken has signed
    setCookie,  \* the jwt cookie the last response set
    jar,        \* the jwt cookie the client holds
    chain,      \* what protectRoute did with the last request
    byUpdatedAt,    \* the _ids of the chats, the one with the latest updatedAt first
    leaving     \* the leaveGroupChat requests between their findById and their save

\* The state of the auth controller and of the session middleware.
authVars == <<accounts, nextUserId, signups, issued, setCookie, jar, chain>>

vars == <<users, chats, messages, nextMessageId, req, res, authVars, byUpdatedAt, leaving>>

\* ------------------------------------------------------------- JavaScript
\* String.prototype.trim
RECURSIVE TrimStart(_)
TrimStart(s) == IF s # <<>> /\ Head(s) = " " THEN TrimStart(Tail(s)) ELSE s

RECURSIVE TrimEnd(_)
TrimEnd(s) == IF s # <<>> /\ s[Len(s)] = " " THEN TrimEnd(SubSeq(s, 1, Len(s) - 1)) ELSE s

\* A text kept with its surrounding whitespace.
Trim_Nothing(s) == s

Trim(s) == TrimEnd(TrimStart(s))

\* Truthiness of an optional string: undefined and "" are falsy.
Truthy(v) == v.type = "string" /\ v.chars # <<>>

\* Array.from(new Set(xs)): the first occurrence of every value, in order.
RECURSIVE Dedup(_)
Dedup(xs) ==
    IF xs = <<>> THEN <<>>
    ELSE LET front == Dedup(SubSeq(xs, 1, Len(xs) - 1))
             last == xs[Len(xs)]
         IN  IF \E i \in 1 .. Len(front) : front[i] = last THEN front ELSE Append(front, last)

\* The set of elements of a sequence.
Range(xs) == {xs[i] : i \in 1 .. Len(xs)}

\* ------------------------------------------------------------------ store
\* Mongoose casts every element of members to an ObjectId when the chat is built.
CastMembers(ids) == [i \in 1 .. Len(ids) |-> ids[i].hex]

\* populate("members", "-password"): every member ID that names a stored user
\* is replaced by that user's view.
Populate(members) ==
    LET found == SelectSeq(members, LAMBDA h : h \in users)
    IN  [i \in 1 .. Len(found) |-> [_id |-> found[i]]]

PopulatedChat(chatId, chat) ==
    [_id |-> chatId, name |-> chat.name, isGroup |-> chat.isGroup,
     members |-> Populate(chat.members)]

\* Chat.findById
ChatExists(chatId) == chatId \in 1 .. Len(chats)

NoRequest ==
    [op |-> "none", userId |-> "", chatId |-> 0, messageId |-> 0, memberIds |-> <<>>,
     isGroup |-> FALSE, name |-> Undefined, text |-> Undefined, image |-> Undefined,
     uploadFailed |-> FALSE]

Response(status, message, body) == [status |-> status, message |-> message, body |-> body]

\* The order in which new User documents get their _id.
UserIdOrder == <<"u1", "u2", "u3", "u4">>

\* No jwt cookie.
NoToken == [userId |-> "", signature |-> "none"]

\* jwt.sign({userId}, JWT_SECRET_KEY): a token signed with the server's key.
SignedToken(userId) == [userId |-> userId, signature |-> "valid"]

\* res.cookie("jwt", "", { maxAge: 0 }): the cookie that makes the client drop its token.
ClearedCookie == [userId |-> "", signature |-> "cleared"]

\* A request that did not go through protectRoute.
NoChain == [nextCalls |-> 0, responses |-> 0, user |-> <<>>]

\* bcrypt.hash(password, salt): a one-way image of the password.
Hash(password) == <<"$">> \o password

\* new User({name, email, password}) with the defaults of userSchema.
NewUser(name, email, hashedPassword) ==
    [name |-> name, email |-> email, password |-> hashedPassword,
     profilePic |-> <<>>, aboutMe |-> <<>>]

\* The users that have signed up before the chat and message requests are served.
SignedUpAccounts ==
    [u \in UserIds |-> NewUser(<<"n">>, <<u>>, Hash(<<"p", "p", "p", "p", "p", "p">>))]

\* No auth request served, no session.
NoSession ==
    /\ signups = <<>>
    /\ issued = {}
    /\ setCookie = NoToken
    /\ jar = NoToken
    /\ chain = NoChain

Init ==
    /\ users = UserIds
    /\ accounts = SignedUpAccounts
    /\ nextUserId = Cardinality(UserIds) + 1
    /\ NoSession
    /\ chats = <<>>
    /\ byUpdatedAt = <<>>
    /\ leaving = <<>>
    /\ messages = <<>>
    /\ nextMessageId = 1
    /\ req = NoRequest
    /\ res = Response(0, "", <<>>)

\* -------------------------------------------------------- chat.controller
\* A sort by updatedAt that puts the latest write last.
Touch_OldestFirst(chatId) == SelectSeq(byUpdatedAt, LAMBDA c : c # chatId) \o <<chatId>>

\* timestamps: true: a write to a chat sets its updatedAt to the time of the write,
\* later than every updatedAt stored before.
Touch(chatId) == <<chatId>> \o SelectSeq(byUpdatedAt, LAMBDA c : c # chatId)

\* A chat collection without a version key.
MarkOutOfDate_Never(pending, chatId) == pending

\* versionKey: a save that sets the members array raises the chat's __v, and the
\* documents of that chat read before it are out of date.
MarkOutOfDate(pending, chatId) ==
    [i \in 1 .. Len(pending) |->
        IF pending[i].chatId = chatId THEN [pending[i] EXCEPT !.upToDate = FALSE]
        ELSE pending[i]]

OutOfDate(chatId) == MarkOutOfDate(leaving, chatId)

\* createChat, line 61: the requester is added to the requested members.
AllMembers(memberIds, userId) == Dedup(Append(memberIds, ObjectId(userId)))

\* !name || name.trim().length === 0
BlankName(name) == ~Truthy(name) \/ Len(Trim(name.chars)) = 0

\* createChat's validation: the error message, or "" when the input is accepted.
CreateChatError(allMembers, isGroup, name) ==
    IF isGroup
    THEN IF BlankName(name) THEN "Group chats must have a name."
         ELSE IF Len(allMembers) < 3 THEN "Group chats must have at least 3 members."
         ELSE ""
    ELSE IF Len(allMembers) # 2 THEN "Direct messages must have exactly 2 members."
         ELSE IF Truthy(name) /\ Len(Trim(name.chars)) > 0 THEN "Direct messages cannot have a name."
         ELSE ""

NewChat(allMembers, isGroup, name) ==
    [name |-> IF isGroup THEN name.chars ELSE <<>>,
     isGroup |-> isGroup,
     members |-> CastMembers(allMembers)]

\* createChat, in a store that holds fewer than limit chats.
CreateChatWithin(limit, userId, memberIds, isGroup, name) ==
    LET allMembers == AllMembers(memberIds, userId)
        error == CreateChatError(allMembers, isGroup, name)
        newChat == NewChat(allMembers, isGroup, name)
    IN  /\ Len(chats) < limit
        /\ req' = [NoRequest EXCEPT !.op = "createChat", !.userId = userId,
                       !.memberIds = memberIds, !.isGroup = isGroup, !.name = name]
        /\ IF error # ""
           THEN /\ res' = Response(400, error, <<>>)
                /\ UNCHANGED <<chats, byUpdatedAt>>
           ELSE /\ chats' = Append(chats, newChat)
                /\ byUpdatedAt' = Touch(Len(chats) + 1)
                /\ res' = Response(201, "", <<PopulatedChat(Len(chats) + 1, newChat)>>)
        /\ UNCHANGED <<users, messages, nextMessageId>>
        /\ UNCHANGED authVars
        /\ UNCHANGED leaving

CreateChat(userId, memberIds, isGroup, name) ==
    CreateChatWithin(MaxChats, userId, memberIds, isGroup, name)

\* The member's ObjectId compared with the requester's without toString().
IsPopulatedMember_ByReference(members, userId) == FALSE

\* The membership check left out.
IsPopulatedMember_NoCheck(members, userId) == TRUE

\* getChat, line 131: is the requester among the populated members.
IsPopulatedMember(members, userId) == \E i \in 1 .. Len(members) : members[i]._id = userId

GetChat(userId, chatId) ==
    /\ req' = [NoRequest EXCEPT !.op = "getChat", !.userId = userId, !.chatId = chatId]
    /\ res' = IF ~ChatExists(chatId) THEN Response(404, "Chat not found.", <<>>)
              ELSE LET chat == PopulatedChat(chatId, chats[chatId])
                   IN  IF ~IsPopulatedMember(chat.members, userId)
                       THEN Response(403, "You are not authorised to view this chat.", <<>>)
                       ELSE Response(200, "", <<chat>>)
    /\ UNCHANGED <<users, chats, messages, nextMessageId>>
    /\ UNCHANGED authVars
    /\ UNCHANGED <<byUpdatedAt, leaving>>

\* The membership check left out.
IncludesMember_NoCheck(members, userId) == TRUE

\* MongooseArray.includes casts its argument and compares the IDs by value.
IncludesMember(members, userId) == \E i \in 1 .. Len(members) : members[i] = userId

\* { $addToSet: { members: { $each: memberIds } } }: every ID that is not in the
\* array yet is appended, in the order given.
RECURSIVE AddToSet(_, _)
AddToSet(members, ids) ==
    IF ids = <<>> THEN members
    ELSE AddToSet(IF IncludesMember(members, Head(ids)) THEN members ELSE Append(members, Head(ids)),
                  Tail(ids))

\* The membership check made before the check of the chat's type.
GroupChatError_MembershipFirst(userId, chatId, notGroupMessage) ==
    IF chatId \notin 1 .. Len(chats) THEN Response(404, "Chat not found.", <<>>)
    ELSE IF \A i \in 1 .. Len(chats[chatId].members) : chats[chatId].members[i] # userId
         THEN Response(403, "You are not a member of this chat.", <<>>)
    ELSE IF ~chats[chatId].isGroup THEN Response(400, notGroupMessage, <<>>)
    ELSE Response(200, "", <<>>)

\* The checks addMembersToGroupChat, leaveGroupChat and renameGroupChat make after
\* validating the body: the chat lookup, the chat's type, the requester's membership.
GroupChatError(userId, chatId, notGroupMessage) ==
    IF ~ChatExists(chatId) THEN Response(404, "Chat not found.", <<>>)
    ELSE IF ~chats[chatId].isGroup THEN Response(400, notGroupMessage, <<>>)
    ELSE IF ~IncludesMember(chats[chatId].members, userId)
         THEN Response(403, "You are not a member of this chat.", <<>>)
    ELSE Response(200, "", <<>>)

AddMembersToGroupChat(userId, chatId, memberIds) ==
    LET error == IF Len(memberIds) = 0
                 THEN Response(400, "You must include at least one user to add as a member.", <<>>)
                 ELSE GroupChatError(userId, chatId, "You can only add members to group chats.")
        updatedChat == [chats[chatId] EXCEPT
                            !.members = AddToSet(@, CastMembers(memberIds))]
    IN  /\ req' = [NoRequest EXCEPT !.op = "addMembersToGroupChat", !.userId = userId,
                       !.chatId = chatId, !.memberIds = memberIds]
        /\ IF error.status # 200
           THEN /\ res' = error
                /\ UNCHANGED <<chats, byUpdatedAt>>
           ELSE /\ chats' = [chats EXCEPT ![chatId] = updatedChat]
                /\ byUpdatedAt' = Touch(chatId)
                /\ res' = Response(200, "", <<PopulatedChat(chatId, updatedChat)>>)
        /\ UNCHANGED <<users, messages, nextMessageId>>
        /\ UNCHANGED authVars
        /\ UNCHANGED leaving

\* A filter that keeps no member.
WithoutMember_Nobody(members, userId) == <<>>

\* leaveGroupChat, lines 265-270: every entry with the requester's ID is dropped.
WithoutMember(members, userId) == SelectSeq(members, LAMBDA memberId : memberId # userId)

LeaveGroupChat(userId, chatId) ==
    LET error == GroupChatError(userId, chatId, "Cannot leave a direct message chat.")
    IN  /\ req' = [NoRequest EXCEPT !.op = "leaveGroupChat", !.userId = userId, !.chatId = chatId]
        /\ IF error.status # 200
           THEN /\ res' = error
                /\ UNCHANGED <<chats, byUpdatedAt, leaving>>
           ELSE /\ chats' = [chats EXCEPT ![chatId].members = WithoutMember(@, userId)]
                /\ byUpdatedAt' = Touch(chatId)
                /\ leaving' = OutOfDate(chatId)
                /\ res' = Response(200, "Successfully left the group chat.", <<>>)
        /\ UNCHANGED <<users, messages, nextMessageId>>
        /\ UNCHANGED authVars

\* leaveGroupChat up to and including await Chat.findById(chatId) and the checks on
\* the document it returned: a request that fails a check is answered; one that
\* passes holds the document it read until it saves it.
LeaveRead(userId, chatId) ==
    LET error == GroupChatError(userId, chatId, "Cannot leave a direct message chat.")
    IN  /\ Len(leaving) < MaxLeaving
        /\ IF error.status # 200
           THEN /\ req' = [NoRequest EXCEPT !.op = "leaveGroupChat", !.userId = userId,
                               !.chatId = chatId]
                /\ res' = error
                /\ leaving' = leaving
           ELSE /\ leaving' = Append(leaving, [userId |-> userId, chatId |-> chatId,
                                               members |-> chats[chatId].members,
                                               upToDate |-> TRUE])
                /\ UNCHANGED <<req, res>>
        /\ UNCHANGED <<users, chats, byUpdatedAt, messages, nextMessageId>>
        /\ UNCHANGED authVars

\* leaveGroupChat from chat.members = chat.members.filter(...) on: the filtered
\* array of the document that was read is written with $set, under the condition
\* that the chat's __v is the one that was read; save throws a VersionError when
\* it is not.
LeaveSave(i) ==
    LET request == leaving[i]
        others == SubSeq(leaving, 1, i - 1) \o SubSeq(leaving, i + 1, Len(leaving))
    IN  /\ req' = [NoRequest EXCEPT !.op = "leaveGroupChat", !.userId = request.userId,
                       !.chatId = request.chatId]
        /\ IF ~request.upToDate
           THEN /\ res' = Response(500, "Internal Server Error", <<>>)
                /\ leaving' = others
                /\ UNCHANGED <<chats, byUpdatedAt>>
           ELSE /\ chats' = [chats EXCEPT ![request.chatId].members =
                                              WithoutMember(request.members, request.userId)]
                /\ byUpdatedAt' = Touch(request.chatId)
                /\ leaving' = MarkOutOfDate(others, request.chatId)
                /\ res' = Response(200, "Successfully left the group chat.", <<>>)
        /\ UNCHANGED <<users, messages, nextMessageId>>
        /\ UNCHANGED authVars

RenameGroupChat(userId, chatId, name) ==
    LET error == IF BlankName(name) THEN Response(400, "Name cannot be empty.", <<>>)
                 ELSE GroupChatError(userId, chatId, "Only group chats can be renamed.")
        renamed == [chats[chatId] EXCEPT !.name = name.chars]
    IN  /\ req' = [NoRequest EXCEPT !.op = "renameGroupChat", !.userId = userId,
                       !.chatId = chatId, !.name = name]
        /\ IF error.status # 200
           THEN /\ res' = error
                /\ UNCHANGED <<chats, byUpdatedAt>>
           ELSE /\ chats' = [chats EXCEPT ![chatId] = renamed]
                /\ byUpdatedAt' = IF renamed = chats[chatId] THEN byUpdatedAt ELSE Touch(chatId)
                /\ res' = Response(200, "", <<PopulatedChat(chatId, renamed)>>)
        /\ UNCHANGED <<users, messages, nextMessageId>>
        /\ UNCHANGED authVars
        /\ UNCHANGED leaving

NextChat ==
    \/ \E userId \in users, memberIds \in MemberIdInputs, isGroup \in BOOLEAN, name \in NameInputs :
           CreateChat(userId, memberIds, isGroup, name)
    \/ \E userId \in users, chatId \in ChatIdInputs : GetChat(userId, chatId)
    \/ \E userId \in users, chatId \in ChatIdInputs, memberIds \in MemberIdInputs :
           AddMembersToGroupChat(userId, chatId, memberIds)
    \/ \E userId \in users, chatId \in ChatIdInputs : LeaveGroupChat(userId, chatId)
    \/ \E userId \in users, chatId \in ChatIdInputs, name \in NameInputs :
           RenameGroupChat(userId, chatId, name)

\* ----------------------------------------------------- message.controller
\* The filter on chatId left out.
MessagesOfChat_AllMessages(chatId) == messages

\* Message.find({ chatId })
MessagesOfChat(chatId) == SelectSeq(messages, LAMBDA m : m.chatId = chatId)

\* Message.findById: the position of the message in the collection, 0 if none.
MessageIndex(messageId) ==
    IF \E i \in 1 .. Len(messages) : messages[i]._id = messageId
    THEN CHOOSE i \in 1 .. Len(messages) : messages[i]._id = messageId
    ELSE 0

\* Message.findByIdAndDelete
WithoutMessage(messageId) == SelectSeq(messages, LAMBDA m : m._id # messageId)

\* cloudinary.uploader.upload(image).secure_url: the reference the asset host
\* gives the uploaded image.
SecureUrl(image) == Str(<<"h">> \o image.chars)

GetChatMessages(userId, chatId) ==
    /\ req' = [NoRequest EXCEPT !.op = "getChatMessages", !.userId = userId, !.chatId = chatId]
    /\ res' = Response(200, "", MessagesOfChat(chatId))
    /\ UNCHANGED <<users, chats, messages, nextMessageId>>
    /\ UNCHANGED authVars
    /\ UNCHANGED <<byUpdatedAt, leaving>>

\* Only an absent text counted as no text.
EmptyMessage_UndefinedOnly(text, image) == text.type = "undefined" /\ ~Truthy(image)

\* sendChatMessage, line 89: the body carries neither text nor image.
EmptyMessage(text, image) == ~Truthy(text) /\ ~Truthy(image)

\* An upload whose failure goes unnoticed.
UploadThrows_Never(image, uploadOk) == FALSE

\* sendChatMessage, lines 95-96: cloudinary.uploader.upload is called for an image
\* only, and throws when the asset host fails.
UploadThrows(image, uploadOk) == Truthy(image) /\ ~uploadOk

SendChatMessage(userId, chatId, text, image, uploadOk) ==
    LET newMessage == [_id |-> nextMessageId, senderId |-> userId, chatId |-> chatId,
                       text |-> text,
                       image |-> IF Truthy(image) THEN SecureUrl(image) ELSE Undefined]
    IN  /\ nextMessageId <= MaxMessages
        /\ req' = [NoRequest EXCEPT !.op = "sendChatMessage", !.userId = userId,
                       !.chatId = chatId, !.text = text, !.image = image,
                       !.uploadFailed = (~EmptyMessage(text, image) /\ Truthy(image) /\ ~uploadOk)]
        /\ IF EmptyMessage(text, image)
           THEN /\ res' = Response(400, "Message must include text or image.", <<>>)
                /\ UNCHANGED <<messages, nextMessageId>>
           ELSE IF UploadThrows(image, uploadOk)
           THEN /\ res' = Response(500, "Internal server error", <<>>)
                /\ UNCHANGED <<messages, nextMessageId>>
           ELSE /\ messages' = Append(messages, newMessage)
                /\ nextMessageId' = nextMessageId + 1
                /\ res' = Response(201, "", <<newMessage>>)
        /\ UNCHANGED <<users, chats>>
        /\ UNCHANGED authVars
        /\ UNCHANGED <<byUpdatedAt, leaving>>

\* The sender check left out.
NotSender_NoCheck(message, userId) == FALSE

\* message.senderId.toString() !== userId.toString()
NotSender(message, userId) == message.senderId # userId

\* A blank text refused whether or not the message has an image.
EditTextError_IgnoresImage(message, text) ==
    IF text.type = "undefined" THEN "Text must be provided, even if empty."
    ELSE IF Len(Trim(text.chars)) = 0 THEN "Message must have text and/or an image."
    ELSE ""

\* editMessage, lines 158-165: the checks on the new text.
EditTextError(message, text) ==
    IF text.type = "undefined" THEN "Text must be provided, even if empty."
    ELSE IF Len(Trim(text.chars)) = 0 /\ ~Truthy(message.image)
         THEN "Message must have text and/or an image."
    ELSE ""

EditMessage(userId, messageId, text) ==
    LET i == MessageIndex(messageId)
        edited == [messages[i] EXCEPT !.text = Str(Trim(text.chars))]
    IN  /\ req' = [NoRequest EXCEPT !.op = "editMessage", !.userId = userId,
                       !.messageId = messageId, !.text = text]
        /\ IF i = 0
           THEN /\ res' = Response(404, "Message not found.", <<>>)
                /\ messages' = messages
           ELSE IF NotSender(messages[i], userId)
           THEN /\ res' = Response(403, "You can only edit your own messages.", <<>>)
                /\ messages' = messages
           ELSE IF EditTextError(messages[i], text) # ""
           THEN /\ res' = Response(400, EditTextError(messages[i], text), <<>>)
                /\ messages' = messages
           ELSE /\ messages' = [messages EXCEPT ![i] = edited]
                /\ res' = Response(200, "", <<edited>>)
        /\ UNCHANGED <<users, chats, nextMessageId>>
        /\ UNCHANGED authVars
        /\ UNCHANGED <<byUpdatedAt, leaving>>

DeleteMessage(userId, messageId) ==
    LET i == MessageIndex(messageId)
    IN  /\ req' = [NoRequest EXCEPT !.op = "deleteMessage", !.userId = userId,
                       !.messageId = messageId]
        /\ IF i = 0
           THEN /\ res' = Response(404, "Message not found.", <<>>)
                /\ messages' = messages
           ELSE IF NotSender(messages[i], userId)
           THEN /\ res' = Response(403, "You can only delete your own messages.", <<>>)
                /\ messages' = messages
           ELSE /\ messages' = WithoutMessage(messageId)
                /\ res' = Response(200, "Message deleted successfully.", <<>>)
        /\ UNCHANGED <<users, chats, nextMessageId>>
        /\ UNCHANGED authVars
        /\ UNCHANGED <<byUpdatedAt, leaving>>

NextMessage ==
    \/ \E userId \in users, chatId \in ChatIdInputs : GetChatMessages(userId, chatId)
    \/ \E userId \in users, chatId \in ChatIdInputs, text \in TextInputs,
          image \in ImageInputs, uploadOk \in BOOLEAN :
           SendChatMessage(userId, chatId, text, image, uploadOk)
    \/ \E userId \in users, messageId \in MessageIdInputs, text \in TextInputs :
           EditMessage(userId, messageId, text)
    \/ \E userId \in users, messageId \in MessageIdInputs : DeleteMessage(userId, messageId)

\* The requests that open a direct chat with one other user.
DirectChatRequests == {<<IdString(u)>> : u \in UserIds}

NextAccess ==
    \/ \E userId \in users, memberIds \in DirectChatRequests :
           CreateChat(userId, memberIds, FALSE, Undefined)
    \/ \E userId \in users, chatId \in ChatIdInputs : GetChat(userId, chatId)
    \/ \E userId \in users, chatId \in ChatIdInputs : GetChatMessages(userId, chatId)
    \/ \E userId \in users, chatId \in ChatIdInputs, text \in TextInputs :
           SendChatMessage(userId, chatId, text, Undefined, TRUE)

\* The requests that open a group chat named "a".
GroupChatRequests == {ids \in MemberIdInputs : Len(ids) = MaxMemberIds}

\* A group chat, its members joining and leaving, and the messages sent to it.
NextLeave ==
    \/ \E userId \in users, memberIds \in GroupChatRequests :
           CreateChat(userId, memberIds, TRUE, Str(<<"a">>))
    \/ \E userId \in users, chatId \in ChatIdInputs, memberIds \in DirectChatRequests :
           AddMembersToGroupChat(userId, chatId, memberIds)
    \/ \E userId \in users, chatId \in ChatIdInputs : LeaveGroupChat(userId, chatId)
    \/ \E userId \in users, chatId \in ChatIdInputs :
           SendChatMessage(userId, chatId, Str(<<"a">>), Undefined, TRUE)

\* Chat.find({ members: userId }).populate("members", "-password").sort({ updatedAt: -1 })
FindChatsOf(userId) ==
    LET found == SelectSeq(byUpdatedAt, LAMBDA c : IncludesMember(chats[c].members, userId))
    IN  [i \in 1 .. Len(found) |-> PopulatedChat(found[i], chats[found[i]])]

GetChatsList(userId) ==
    /\ req' = [NoRequest EXCEPT !.op = "getChatsList", !.userId = userId]
    /\ res' = Response(200, "", FindChatsOf(userId))
    /\ UNCHANGED <<users, chats, messages, nextMessageId>>
    /\ UNCHANGED authVars
    /\ UNCHANGED <<byUpdatedAt, leaving>>

\* :chatId of a request to a store of up to MaxListedChats chats.
ListedChatIdInputs == 0 .. MaxListedChats

\* The names a group chat is given.
GroupNameInputs == {Str(<<"a">>), Str(<<" ", "b">>)}

\* The request that opens a group chat with the two users that sort last.
ListedChatRequests == {<<IdString("u2"), IdString("u3")>>}

\* The request that adds the user that sorts first to a group chat.
ListedMemberRequests == {<<IdString("u1")>>}

\* Group chats that are created, changed and listed.
NextList ==
    \/ \E userId \in users, memberIds \in ListedChatRequests :
           CreateChatWithin(MaxListedChats, userId, memberIds, TRUE, Str(<<"a">>))
    \/ \E userId \in users, chatId \in ListedChatIdInputs, memberIds \in ListedMemberRequests :
           AddMembersToGroupChat(userId, chatId, memberIds)
    \/ \E userId \in users, chatId \in ListedChatIdInputs : LeaveGroupChat(userId, chatId)
    \/ \E userId \in users, chatId \in ListedChatIdInputs, name \in GroupNameInputs :
           RenameGroupChat(userId, chatId, name)
    \/ \E userId \in users : GetChatsList(userId)

\* A group chat whose members are added while others leave.
NextRace ==
    \/ \E userId \in users, memberIds \in ListedChatRequests :
           CreateChat(userId, memberIds, TRUE, Str(<<"a">>))
    \/ \E userId \in users, chatId \in ChatIdInputs, memberIds \in DirectChatRequests :
           AddMembersToGroupChat(userId, chatId, memberIds)
    \/ \E userId \in users, chatId \in ChatIdInputs : LeaveRead(userId, chatId)
    \/ \E i \in 1 .. Len(leaving) : LeaveSave(i)

\* memberIds that name a stored user or a user that does not exist: "u0" is an
\* ObjectId string that is the _id of no user.
StrangerRequests == SeqsUpTo({IdString("u2"), IdString("u0")}, MaxMemberIds)

\* Chats whose requested members are not all users.
NextStrangers ==
    \/ \E userId \in users, memberIds \in StrangerRequests, isGroup \in BOOLEAN :
           CreateChat(userId, memberIds, isGroup, IF isGroup THEN Str(<<"a">>) ELSE Undefined)
    \/ \E userId \in users, chatId \in ChatIdInputs, memberIds \in StrangerRequests :
           AddMembersToGroupChat(userId, chatId, memberIds)
    \/ \E userId \in users, chatId \in ChatIdInputs : GetChat(userId, chatId)

\* The chat controller's requests.
Spec == Init /\ [][NextChat]_vars

\* The message controller's requests.
SpecMessage == Init /\ [][NextMessage]_vars

\* Chats and the messages sent to them.
SpecAccess == Init /\ [][NextAccess]_vars

\* Group chats whose members leave.
SpecLeave == Init /\ [][NextLeave]_vars

\* The chat list of a user.
SpecList == Init /\ [][NextList]_vars

\* Requests on one group chat that run at the same time.
SpecRace == Init /\ [][NextRace]_vars

\* Requests that name users that do not exist.
SpecStrangers == Init /\ [][NextStrangers]_vars

\* -------------------------------------------------------- auth.controller
\* signup, line 33: the least length of a password.
MinPasswordLength == 6

\* name, email and password of a request body.
NameFieldInputs == {Undefined, Str(<<"n">>)}
EmailInputs == {Undefined, Str(<<"a">>), Str(<<"b">>)}
PasswordInputs ==
    {Undefined, Str(<<"p", "p", "p", "p", "p">>), Str(<<"p", "p", "p", "p", "p", "p">>)}

\* The jwt cookie of a request: none, a token this server signed, or a token with
\* a signature that is not this server's.
TokenInputs ==
    {NoToken} \cup issued \cup {[userId |-> u, signature |-> "forged"] : u \in UserIds}

AuthRequest(op, name, email, password, token, expired) ==
    [op |-> op, name |-> name, email |-> email, password |-> password,
     token |-> token, expired |-> expired]

\* User.findOne({email}): the stored users with this email.
UsersWithEmail(email) == {u \in users : accounts[u].email = email}

\* A user view that is the whole document.
UserView_WithPassword(id, user) ==
    [_id |-> id, name |-> user.name, email |-> user.email, password |-> user.password,
     profilePic |-> user.profilePic, aboutMe |-> user.aboutMe]

\* The JSON signup and login answer with: the fields they copy from the document.
UserView(id, user) ==
    [_id |-> id, name |-> user.name, email |-> user.email,
     profilePic |-> user.profilePic, aboutMe |-> user.aboutMe]

\* The checks with the email lookup made before the password's length is looked at.
SignupError_EmailFirst(name, email, password) ==
    IF ~Truthy(name) \/ ~Truthy(email) \/ ~Truthy(password) THEN "All fields are required"
    ELSE IF UsersWithEmail(email.chars) # {} THEN "Email already exists"
    ELSE IF Len(password.chars) < MinPasswordLength
         THEN "Password must be at least 6 characters long"
    ELSE ""

\* signup, lines 27-41: the checks before the password is hashed, in their order;
\* the error message, or "" when the request passes them.
SignupError(name, email, password) ==
    IF ~Truthy(name) \/ ~Truthy(email) \/ ~Truthy(password) THEN "All fields are required"
    ELSE IF Len(password.chars) < MinPasswordLength
         THEN "Password must be at least 6 characters long"
    ELSE IF UsersWithEmail(email.chars) # {} THEN "Email already exists"
    ELSE ""

\* signup up to and including await User.findOne({email}): a request that fails a
\* check is answered 400; one that passes goes on to hash its password.
SignupRead(name, email, password) ==
    LET error == SignupError(name, email, password)
    IN  /\ (nextUserId - 1) + Len(signups) < MaxSignups
        /\ IF error # ""
           THEN /\ req' = AuthRequest("signup", name, email, password, NoToken, FALSE)
                /\ res' = Response(400, error, <<>>)
                /\ setCookie' = NoToken
                /\ chain' = NoChain
                /\ signups' = signups
           ELSE /\ signups' = Append(signups, [name |-> name, email |-> email,
                                               password |-> password])
                /\ UNCHANGED <<req, res, setCookie, chain>>
        /\ UNCHANGED <<users, accounts, nextUserId, issued, jar>>
        /\ UNCHANGED <<chats, messages, nextMessageId, byUpdatedAt, leaving>>

\* A users collection without the index.
UniqueIndexRejects_NoIndex(email) == FALSE

\* userSchema.email is unique: the index refuses a second document with an email.
UniqueIndexRejects(email) == UsersWithEmail(email) # {}

\* signup from new User(...) on: the token is generated and set as a cookie, then
\* the user is saved; a save the unique index refuses ends in the catch block.
SignupSave(i) ==
    LET request == signups[i]
        id == UserIdOrder[nextUserId]
        newUser == NewUser(request.name.chars, request.email.chars, Hash(request.password.chars))
    IN  /\ req' = AuthRequest("signup", request.name, request.email, request.password,
                              NoToken, FALSE)
        /\ signups' = SubSeq(signups, 1, i - 1) \o SubSeq(signups, i + 1, Len(signups))
        /\ nextUserId' = nextUserId + 1
        /\ issued' = issued \cup {SignedToken(id)}
        /\ setCookie' = SignedToken(id)
        /\ jar' = SignedToken(id)
        /\ chain' = NoChain
        /\ IF UniqueIndexRejects(newUser.email)
           THEN /\ res' = Response(500, "Internal Server Error", <<>>)
                /\ UNCHANGED <<users, accounts>>
           ELSE /\ users' = users \cup {id}
                /\ accounts' = [u \in users \cup {id} |-> IF u = id THEN newUser ELSE accounts[u]]
                /\ res' = Response(201, "", <<UserView(id, newUser)>>)
        /\ UNCHANGED <<chats, messages, nextMessageId, byUpdatedAt, leaving>>

\* bcrypt.compare(password, hash) of two strings.
PasswordMatches(password, hash) == Hash(password) = hash

\* login, lines 107-143: the response.  bcrypt.compare rejects when the password is
\* not a string, and the catch block answers that with 500.
LoginResponse(email, password) ==
    LET found == UsersWithEmail(email.chars)
        id == CHOOSE u \in found : TRUE
    IN  IF found = {} THEN Response(400, "Invalid credentials", <<>>)
        ELSE IF password.type = "undefined"
             THEN Response(500, "Internal Server Error", <<>>)
        ELSE IF ~PasswordMatches(password.chars, accounts[id].password)
             THEN Response(400, "Invalid credentials", <<>>)
        ELSE Response(200, "", <<UserView(id, accounts[id])>>)

Login(email, password) ==
    LET found == UsersWithEmail(email.chars)
        id == CHOOSE u \in found : TRUE
        outcome == LoginResponse(email, password)
    IN  /\ req' = AuthRequest("login", Undefined, email, password, NoToken, FALSE)
        /\ res' = outcome
        /\ chain' = NoChain
        /\ IF outcome.status = 200
           THEN /\ issued' = issued \cup {SignedToken(id)}
                /\ setCookie' = SignedToken(id)
                /\ jar' = SignedToken(id)
           ELSE /\ setCookie' = NoToken
                /\ UNCHANGED <<issued, jar>>
        /\ UNCHANGED <<users, accounts, nextUserId, signups>>
        /\ UNCHANGED <<chats, messages, nextMessageId, byUpdatedAt, leaving>>

Logout ==
    /\ req' = AuthRequest("logout", Undefined, Undefined, Undefined, jar, FALSE)
    /\ res' = Response(200, "Logged out successfully", <<>>)
    /\ setCookie' = ClearedCookie
    /\ jar' = NoToken
    /\ chain' = NoChain
    /\ UNCHANGED <<users, accounts, nextUserId, signups, issued>>
    /\ UNCHANGED <<chats, messages, nextMessageId, byUpdatedAt, leaving>>

\* The body of an updateProfile request; email is a field the handler does not read.
ProfileNameInputs == {Undefined, Str(<<" ">>), Str(<<" ", "m">>)}
AboutMeInputs == {Undefined, Str(<<>>), Str(<<"x">>)}
ProfilePicInputs == {Undefined, Str(<<"i">>)}
ProfileBodies ==
    [name : ProfileNameInputs, aboutMe : AboutMeInputs, profilePic : ProfilePicInputs,
     email : {Undefined, Str(<<"b">>)}]

\* An update that takes every field of the body.
UpdateData_WholeBody(body) ==
    LET fields == {f \in {"name", "aboutMe", "profilePic", "email"} : body[f].type = "string"}
    IN  [f \in fields |-> IF f = "profilePic" THEN SecureUrl(body.profilePic).chars
                          ELSE body[f].chars]

\* updateProfile, lines 194-215: updateData, the fields to write and their values.
UpdateData(body) ==
    LET fields ==
            {f \in {"name"} : Truthy(body.name) /\ Len(Trim(body.name.chars)) > 0}
                \cup {f \in {"aboutMe"} : body.aboutMe.type = "string"}
                \cup {f \in {"profilePic"} : Truthy(body.profilePic)}
    IN  [f \in fields |-> IF f = "name" THEN Trim(body.name.chars)
                          ELSE IF f = "aboutMe" THEN body.aboutMe.chars
                          ELSE SecureUrl(body.profilePic).chars]

\* User.findByIdAndUpdate(userId, updateData): the document with the fields of
\* updateData set.
UpdatedUser(userId, updateData) ==
    [f \in DOMAIN accounts[userId] |->
        IF f \in DOMAIN updateData THEN updateData[f] ELSE accounts[userId][f]]

\* PUT /api/auth/update-profile, after protectRoute has set req.user.
UpdateProfile(userId, body, uploadOk) ==
    LET updateData == UpdateData(body)
    IN  /\ req' = [op |-> "updateProfile", userId |-> userId, body |-> body,
                   uploadFailed |-> (Truthy(body.profilePic) /\ ~uploadOk)]
        /\ setCookie' = NoToken
        /\ chain' = NoChain
        /\ IF UploadThrows(body.profilePic, uploadOk)
           THEN /\ res' = Response(500, "Internal Server Error", <<>>)
                /\ accounts' = accounts
           ELSE IF DOMAIN updateData = {}
           THEN /\ res' = Response(400, "No valid profile fields provided to update.", <<>>)
                /\ accounts' = accounts
           ELSE /\ accounts' = [accounts EXCEPT ![userId] = UpdatedUser(userId, updateData)]
                /\ res' = Response(200, "", <<UserView(userId, UpdatedUser(userId, updateData))>>)
        /\ UNCHANGED <<users, nextUserId, signups, issued, jar>>
        /\ UNCHANGED <<chats, messages, nextMessageId, byUpdatedAt, leaving>>

\* --------------------------------------------------------- auth.middleware
\* A verification that also asks for the token to be the one the client still holds.
JwtVerifies_CurrentSessionOnly(token, expired) ==
    token.signature = "valid" /\ ~expired /\ token = jar

\* jwt.verify(token, JWT_SECRET_KEY) returns the payload of a token that carries this
\* server's signature and has not expired, and throws for any other token.
JwtVerifies(token, expired) == token.signature = "valid" /\ ~expired

\* User.findById(decodedToken.userId).select("password"): the document with the
\* fields the projection names.
SelectPassword(userId) == <<[_id |-> userId, password |-> accounts[userId].password]>>

\* A protectRoute whose "User not found" branch lacks its return.
ProtectRoute_FallsThrough(token, expired) ==
    IF token = NoToken
    THEN [status |-> 401, message |-> "Unauthorised - No Token Provided",
          nextCalls |-> 0, responses |-> 1, user |-> <<>>]
    ELSE IF ~JwtVerifies(token, expired)
    THEN [status |-> 500, message |-> "Internal Server Error",
          nextCalls |-> 0, responses |-> 1, user |-> <<>>]
    ELSE IF token.userId \notin users
    THEN [status |-> 404, message |-> "User not found",
          nextCalls |-> 1, responses |-> 1, user |-> <<>>]
    ELSE [status |-> 0, message |-> "",
          nextCalls |-> 1, responses |-> 0, user |-> SelectPassword(token.userId)]

\* protectRoute: the response it sends (status 0: none), how often it calls next,
\* and the user it attaches to the request.
ProtectRoute(token, expired) ==
    IF token = NoToken
    THEN [status |-> 401, message |-> "Unauthorised - No Token Provided",
          nextCalls |-> 0, responses |-> 1, user |-> <<>>]
    ELSE IF ~JwtVerifies(token, expired)
    THEN [status |-> 500, message |-> "Internal Server Error",
          nextCalls |-> 0, responses |-> 1, user |-> <<>>]
    ELSE IF token.userId \notin users
    THEN [status |-> 404, message |-> "User not found",
          nextCalls |-> 0, responses |-> 1, user |-> <<>>]
    ELSE [status |-> 0, message |-> "",
          nextCalls |-> 1, responses |-> 0, user |-> SelectPassword(token.userId)]

\* GET /api/auth/check: protectRoute, then checkAuth, which answers with req.user.
CheckAuth(token, expired) ==
    LET outcome == ProtectRoute(token, expired)
    IN  /\ req' = AuthRequest("checkAuth", Undefined, Undefined, Undefined, token, expired)
        /\ chain' = [nextCalls |-> outcome.nextCalls, responses |-> outcome.responses,
                     user |-> outcome.user]
        /\ res' = IF outcome.nextCalls > 0 THEN Response(200, "", outcome.user)
                  ELSE Response(outcome.status, outcome.message, <<>>)
        /\ setCookie' = NoToken
        /\ UNCHANGED <<users, accounts, nextUserId, signups, issued, jar>>
        /\ UNCHANGED <<chats, messages, nextMessageId, byUpdatedAt, leaving>>

\* An empty database.
InitAuth ==
    /\ users = {}
    /\ accounts = [u \in {} |-> NewUser(<<>>, <<>>, <<>>)]
    /\ nextUserId = 1
    /\ NoSession
    /\ chats = <<>>
    /\ byUpdatedAt = <<>>
    /\ leaving = <<>>
    /\ messages = <<>>
    /\ nextMessageId = 1
    /\ req = NoRequest
    /\ res = Response(0, "", <<>>)

NextAuth ==
    \/ \E name \in NameFieldInputs, email \in EmailInputs, password \in PasswordInputs :
           SignupRead(name, email, password)
    \/ \E i \in 1 .. Len(signups) : SignupSave(i)
    \/ \E email \in EmailInputs \ {Undefined}, password \in PasswordInputs : Login(email, password)
    \/ Logout
    \/ \E token \in TokenInputs, expired \in BOOLEAN : CheckAuth(token, expired)

\* The auth controller's requests and the session middleware.
SpecAuth == InitAuth /\ [][NextAuth]_vars

\* Users that sign up and change their profiles.
NextProfile ==
    \/ \E email \in EmailInputs \ {Undefined} :
           SignupRead(Str(<<"n">>), email, Str(<<"p", "p", "p", "p", "p", "p">>))
    \/ \E i \in 1 .. Len(signups) : SignupSave(i)
    \/ \E userId \in users, body \in ProfileBodies, uploadOk \in BOOLEAN :
           UpdateProfile(userId, body, uploadOk)

SpecProfile == InitAuth /\ [][NextProfile]_vars

\* ------------------------------------------------------------- properties
\* The message a request names, as stored before the request is served.
StoredMessage(messageId) == messages[MessageIndex(messageId)]

\* The distinct user identities of a createChat request: memberIds and the requester.
RequestedIdentities(request) ==
    {request.memberIds[i].hex : i \in 1 .. Len(request.memberIds)} \cup {request.userId}

\* The user identities in a chat's member array.
MemberSet(chat) == Range(chat.members)

\* C1: editMessage and deleteMessage by a user other than the sender of a stored
\* message answer 403 and leave the Message collection as it was; a stored message
\* changes or disappears only in a step that serves its sender's own editMessage or
\* deleteMessage for it.
C1_OnlySenderEditsOrDeletes ==
    [][/\ ( /\ req'.op \in {"editMessage", "deleteMessage"}
            /\ MessageIndex(req'.messageId) # 0
            /\ StoredMessage(req'.messageId).senderId # req'.userId )
          => (res'.status = 403 /\ messages' = messages)
       /\ \A i \in 1 .. Len(messages) :
            (messages[i] \notin Range(messages'))
            => /\ req'.op \in {"editMessage", "deleteMessage"}
               /\ req'.messageId = messages[i]._id
               /\ req'.userId = messages[i].senderId
               /\ res'.status = 200
      ]_vars

\* C1 witness: a user who is not the sender asked to edit a stored message to a
\* non-blank text and was answered 403.
C1_Witness ==
    /\ req.op = "editMessage"
    /\ Truthy(req.text) /\ Len(Trim(req.text.chars)) > 0
    /\ MessageIndex(req.messageId) # 0
    /\ StoredMessage(req.messageId).senderId # req.userId
    /\ res.status = 403

\* C2: getChat answers 404 when the chat does not exist, 403 when it exists and the
\* requester is not in its current member array, and 200 with that chat when the
\* requester is in it.
C2_GetChatFollowsMembership ==
    req.op = "getChat" =>
        IF req.chatId \notin 1 .. Len(chats) THEN res.status = 404
        ELSE IF req.userId \notin MemberSet(chats[req.chatId]) THEN res.status = 403
        ELSE /\ res.status = 200
             /\ Len(res.body) = 1
             /\ res.body[1]._id = req.chatId
             /\ res.body[1].name = chats[req.chatId].name
             /\ {res.body[1].members[i]._id : i \in 1 .. Len(res.body[1].members)}
                    = MemberSet(chats[req.chatId])

\* C2 witness: getChat answered 403 for a group chat that members have left.
C2_Witness ==
    /\ req.op = "getChat"
    /\ req.chatId \in 1 .. Len(chats)
    /\ chats[req.chatId].isGroup
    /\ Len(chats[req.chatId].members) < 3
    /\ res.status = 403

\* C3: createChat with isGroup=true, a non-blank name and exactly 2 distinct user
\* identities among memberIds and the requester answers 400 "Group chats must have
\* at least 3 members." and stores no chat.
C3_GroupOfTwoRejected ==
    ( /\ req.op = "createChat"
      /\ req.isGroup
      /\ ~BlankName(req.name)
      /\ Cardinality(RequestedIdentities(req)) = 2 )
    => /\ res.status = 400
       /\ res.message = "Group chats must have at least 3 members."

\* C4: createChat with isGroup=false answers 400 whenever the number of distinct
\* user identities among memberIds and the requester is not 2, and 201 when it is 2
\* and no non-blank name is supplied.
C4_DirectNeedsTwoIdentities ==
    (req.op = "createChat" /\ ~req.isGroup)
    => /\ Cardinality(RequestedIdentities(req)) # 2 => res.status = 400
       /\ (Cardinality(RequestedIdentities(req)) = 2 /\ BlankName(req.name)) => res.status = 201

\* C5: every stored chat with isGroup=false has exactly 2 distinct member identities
\* and the empty string as name.
C5_DirectChatShape ==
    \A c \in 1 .. Len(chats) :
        ~chats[c].isGroup => (Cardinality(MemberSet(chats[c])) = 2 /\ chats[c].name = <<>>)

\* C6: on an existing chat with isGroup=false, addMembers with a non-empty memberIds
\* list, leaveChat, and renameChat with a non-blank name answer 400 for every
\* requester, member or not, and leave the Chat collection as it was.
C6_DirectChatRefusesGroupOperations ==
    [][( /\ req'.op \in {"addMembersToGroupChat", "leaveGroupChat", "renameGroupChat"}
         /\ req'.chatId \in 1 .. Len(chats)
         /\ ~chats[req'.chatId].isGroup
         /\ req'.op = "addMembersToGroupChat" => Len(req'.memberIds) > 0
         /\ req'.op = "renameGroupChat" => ~BlankName(req'.name) )
       => (res'.status = 400 /\ chats' = chats)
      ]_vars

\* C6 witness: a user who is not a member of a direct chat asked to add members to
\* it and was answered 400.
C6_Witness ==
    /\ req.op = "addMembersToGroupChat"
    /\ Len(req.memberIds) > 0
    /\ req.chatId \in 1 .. Len(chats)
    /\ ~chats[req.chatId].isGroup
    /\ req.userId \notin MemberSet(chats[req.chatId])
    /\ res.status = 400

\* C7: editMessage by the sender with a text that is empty after trimming answers
\* 400 and changes nothing when the message has no image, and answers 200 and
\* stores the empty string as text when it has one; an absent text answers 400.
C7_EditToEmptyText ==
    [][( /\ req'.op = "editMessage"
         /\ MessageIndex(req'.messageId) # 0
         /\ StoredMessage(req'.messageId).senderId = req'.userId
         /\ Len(Trim(req'.text.chars)) = 0 )
       => IF req'.text.type = "undefined" \/ StoredMessage(req'.messageId).image.type = "undefined"
          THEN res'.status = 400 /\ messages' = messages
          ELSE /\ res'.status = 200
               /\ messages' = [messages EXCEPT ![MessageIndex(req'.messageId)].text = Str(<<>>)]
      ]_vars

\* C7 witness: the sender edited a message that has an image to a blank text, was
\* answered 200, and the message now has the empty string as text.
C7_Witness ==
    /\ req.op = "editMessage"
    /\ req.text = Str(<<" ">>)
    /\ res.status = 200
    /\ MessageIndex(req.messageId) # 0
    /\ StoredMessage(req.messageId).text = Str(<<>>)
    /\ StoredMessage(req.messageId).image.type = "string"

\* C8: every stored message has a non-empty text or an image reference.
C8_TextOrImage ==
    \A i \in 1 .. Len(messages) :
        \/ (messages[i].text.type = "string" /\ Len(messages[i].text.chars) > 0)
        \/ (messages[i].image.type = "string" /\ Len(messages[i].image.chars) > 0)

\* C8 witness: the sender's edit of an image-less message to a blank text was
\* refused, and the message still has its text.
C8_Witness ==
    /\ req.op = "editMessage"
    /\ req.text.type = "string"
    /\ res.status = 400
    /\ MessageIndex(req.messageId) # 0
    /\ StoredMessage(req.messageId).senderId = req.userId
    /\ StoredMessage(req.messageId).image.type = "undefined"
    /\ Len(StoredMessage(req.messageId).text.chars) > 0

\* The messages a listMessages request for the chat returns, as a set.
Listed(chatId) == Range(MessagesOfChat(chatId))

\* C9: after a successful sendMessage, listMessages for the same chat contains the
\* returned message, which has the text, sender and chat of the request and the
\* reference of its image; listMessages for any other chat does not contain it.
C9_SendThenList ==
    (req.op = "sendChatMessage" /\ res.status = 201)
    => /\ Len(res.body) = 1
       /\ res.body[1] \in Listed(req.chatId)
       /\ res.body[1].text = req.text
       /\ res.body[1].senderId = req.userId
       /\ res.body[1].chatId = req.chatId
       /\ res.body[1].image = (IF req.image.type = "string" THEN Str(<<"h">> \o req.image.chars)
                                ELSE Undefined)
       /\ \A other \in ChatIdInputs \ {req.chatId} : res.body[1] \notin Listed(other)

\* C9 witness: a message with text and image was sent to a chat while another chat
\* has a message too.
C9_Witness ==
    /\ req.op = "sendChatMessage"
    /\ res.status = 201
    /\ Truthy(req.text) /\ Truthy(req.image)
    /\ \E other \in ChatIdInputs \ {req.chatId} : Listed(other) # {}

\* Is the requester of the last request outside the member array of the chat it names.
RequesterIsNoMember ==
    /\ req.chatId \in 1 .. Len(chats)
    /\ req.userId \notin MemberSet(chats[req.chatId])

\* C10: for a user who is not a member of an existing chat, listMessages answers 200
\* with exactly the messages of the chat, sendMessage with a text answers 201 and
\* stores the message, and getChat answers 403.
C10_MessagesIgnoreMembership ==
    RequesterIsNoMember
    => /\ req.op = "getChatMessages"
          => /\ res.status = 200
             /\ Range(res.body) = {messages[i] : i \in {j \in 1 .. Len(messages) :
                                                        messages[j].chatId = req.chatId}}
             /\ Len(res.body) = Cardinality(Range(res.body))
       /\ (req.op = "sendChatMessage" /\ Truthy(req.text))
          => /\ res.status = 201
             /\ res.body[1] \in Range(messages)
             /\ res.body[1].chatId = req.chatId
             /\ res.body[1].senderId = req.userId
       /\ req.op = "getChat" => res.status = 403

\* C10 witness: a user who is not a member of a chat listed it and got its messages,
\* among them one sent by a user who is no member either.
C10_Witness ==
    /\ RequesterIsNoMember
    /\ req.op = "getChatMessages"
    /\ res.status = 200
    /\ \E i \in 1 .. Len(res.body) : res.body[i].senderId \notin MemberSet(chats[req.chatId])

\* C11: a request through protectRoute either reaches the next handler exactly once,
\* with req.user the stored user named by the verified token and no response from
\* the middleware, or gets exactly one error response and never reaches the next
\* handler; a request with no token, an unverifiable token or a token of a user
\* that is not stored never reaches it.
C11_NextOrOneErrorResponse ==
    req.op = "checkAuth" =>
        /\ \/ /\ chain.nextCalls = 1
              /\ chain.responses = 0
              /\ JwtVerifies(req.token, req.expired)
              /\ req.token.userId \in users
              /\ Len(chain.user) = 1
              /\ chain.user[1]._id = req.token.userId
           \/ /\ chain.nextCalls = 0
              /\ chain.responses = 1
              /\ res.status >= 400
        /\ (\/ req.token = NoToken
            \/ ~JwtVerifies(req.token, req.expired)
            \/ req.token.userId \notin users) => chain.nextCalls = 0

\* C11 witness: a request with a verified token of a stored user reached the next
\* handler.
C11_Witness ==
    /\ req.op = "checkAuth"
    /\ chain.nextCalls = 1
    /\ chain.responses = 0
    /\ chain.user # <<>>

\* C12: protectRoute answers a token with a wrong signature or a passed expiry with
\* 401 "Invalid Token", no token with 401 "No Token Provided", and a valid token of
\* a user that is not stored with 404 "User not found".
C12_InvalidTokenIs401 ==
    req.op = "checkAuth" =>
        /\ req.token = NoToken
              => res.status = 401 /\ res.message = "Unauthorised - No Token Provided"
        /\ (req.token # NoToken /\ ~JwtVerifies(req.token, req.expired))
              => res.status = 401 /\ res.message = "Unauthorised - Invalid Token"
        /\ (JwtVerifies(req.token, req.expired) /\ req.token.userId \notin users)
              => res.status = 404 /\ res.message = "User not found"

\* A password that is not the one stored for the email.
WrongPassword(email, password) ==
    \/ password.type = "undefined"
    \/ \E u \in UsersWithEmail(email.chars) : ~PasswordMatches(password.chars, accounts[u].password)

\* C13: in every store state, a login with a registered email and a wrong password
\* and a login with an email that is not registered get the same status code and
\* body, and a failed login sets no session cookie.
C13_LoginFailuresAlike ==
    /\ \A e1, e2 \in EmailInputs \ {Undefined}, p1, p2 \in PasswordInputs :
           ( /\ UsersWithEmail(e1.chars) # {}
             /\ WrongPassword(e1, p1)
             /\ UsersWithEmail(e2.chars) = {} )
           => LoginResponse(e1, p1) = LoginResponse(e2, p2)
    /\ (req.op = "login" /\ res.status # 200) => setCookie = NoToken

\* The fields of a user view that hold text.
TextFields == {"name", "email", "profilePic", "aboutMe"}

\* C14: the user view of a successful signup or login has the fields _id, name, email,
\* profilePic and aboutMe only, and none of them holds the stored password hash or
\* the plain password.
C14_UserViewWithoutPassword ==
    (req.op \in {"signup", "login"} /\ res.status \in {200, 201}) =>
        /\ Len(res.body) = 1
        /\ DOMAIN res.body[1] = {"_id"} \cup TextFields
        /\ res.body[1]._id \in users
        /\ \A f \in TextFields :
               /\ res.body[1][f] # accounts[res.body[1]._id].password
               /\ res.body[1][f] # req.password.chars

\* C14 witness: a login with the right password was answered with the user view.
C14_Witness ==
    /\ req.op = "login"
    /\ res.status = 200
    /\ res.body[1].email = req.email.chars

\* C15: the response of GET /api/auth/check with status 200 does not contain the
\* stored password hash.
C15_CheckAuthWithoutPassword ==
    (req.op = "checkAuth" /\ res.status = 200) =>
        /\ Len(res.body) = 1
        /\ "password" \notin DOMAIN res.body[1]

\* C16: no two stored users have the same email, also when signups for one email
\* interleave between the lookup and the save, and a signup is answered 201 only
\* when no user with its email was stored before.
C16_EmailUnique ==
    /\ [](\A u, v \in users : accounts[u].email = accounts[v].email => u = v)
    /\ [][(req'.op = "signup" /\ res'.status = 201 /\ <<req, res, users>>' # <<req, res, users>>)
           => /\ UsersWithEmail(req'.email.chars) = {}
              /\ Cardinality({u \in users' : accounts'[u].email = req'.email.chars}) = 1
         ]_vars

\* C16 witness: two signups for one email passed the lookup; the first was saved and
\* the save of the second was refused.
C16_Witness ==
    /\ req.op = "signup"
    /\ res.status = 500
    /\ UsersWithEmail(req.email.chars) # {}

\* The 400 message the order missing field, short password, stored email gives.
ExpectedSignupError(name, email, password) ==
    IF name = Undefined \/ email = Undefined \/ password = Undefined
    THEN "All fields are required"
    ELSE IF Len(password.chars) < 6 THEN "Password must be at least 6 characters long"
    ELSE "Email already exists"

\* C17: signup answers 400, stores nothing and sets no cookie when a field is
\* missing, the password has fewer than 6 characters or the email is stored
\* already, with the message of the first of these checks that fails; a request
\* goes past the checks only when none of them fails.
C17_SignupChecksInOrder ==
    /\ [][(req'.op = "signup" /\ res'.status = 400)
           => /\ users' = users
              /\ accounts' = accounts
              /\ issued' = issued
              /\ setCookie' = NoToken
              /\ res'.message = ExpectedSignupError(req'.name, req'.email, req'.password)
         ]_vars
    /\ [][Len(signups') > Len(signups)
           => LET request == signups'[Len(signups')]
              IN  /\ request.name # Undefined
                  /\ request.email # Undefined
                  /\ request.password # Undefined
                  /\ Len(request.password.chars) >= 6
                  /\ UsersWithEmail(request.email.chars) = {}
         ]_vars

\* C17 witness: a signup with a short password for a stored email got the password
\* message.
C17_Witness ==
    /\ req.op = "signup"
    /\ res.status = 400
    /\ req.email # Undefined
    /\ UsersWithEmail(req.email.chars) # {}
    /\ res.message = "Password must be at least 6 characters long"

\* C18: logout leaves the users and the issued tokens as they are, and a token that
\* signup or login issued is accepted by protectRoute whenever it is presented
\* unexpired and its user is stored, whether or not the client has logged out.
C18_LogoutKeepsTokensValid ==
    /\ [](( /\ req.op = "checkAuth"
            /\ req.token \in issued
            /\ ~req.expired
            /\ req.token.userId \in users )
          => (chain.nextCalls = 1 /\ res.status = 200))
    /\ [][req'.op = "logout"
           => (users' = users /\ accounts' = accounts /\ issued' = issued)]_vars

\* C18 witness: after a logout, a token issued earlier was presented and accepted.
C18_Witness ==
    /\ req.op = "checkAuth"
    /\ jar = NoToken
    /\ req.token \in issued
    /\ res.status = 200

\* C19: after a successful addMembers on a group chat the chat's member set is the
\* previous member set united with the requested IDs, and no identity appears
\* twice in the member array.
C19_AddMembersIsSetUnion ==
    [][(req'.op = "addMembersToGroupChat" /\ res'.status = 200)
       => /\ MemberSet(chats'[req'.chatId])
                = MemberSet(chats[req'.chatId])
                      \cup {req'.memberIds[i].hex : i \in 1 .. Len(req'.memberIds)}
          /\ Cardinality(MemberSet(chats'[req'.chatId])) = Len(chats'[req'.chatId].members)
      ]_vars

\* C20: on an existing group chat, addMembers with a non-empty list, leaveChat, and
\* renameChat with a non-blank name by a user outside the member array answer 403
\* and leave the Chat collection as it was.
C20_NonMemberCannotChangeGroup ==
    [][( /\ req'.op \in {"addMembersToGroupChat", "leaveGroupChat", "renameGroupChat"}
         /\ req'.chatId \in 1 .. Len(chats)
         /\ chats[req'.chatId].isGroup
         /\ req'.userId \notin MemberSet(chats[req'.chatId])
         /\ req'.op = "addMembersToGroupChat" => Len(req'.memberIds) > 0
         /\ req'.op = "renameGroupChat" => ~BlankName(req'.name) )
       => (res'.status = 403 /\ chats' = chats)
      ]_vars

\* C20 witness: a user outside a group chat asked to add themself to it and was
\* answered 403.
C20_Witness ==
    /\ req.op = "addMembersToGroupChat"
    /\ req.chatId \in 1 .. Len(chats)
    /\ chats[req.chatId].isGroup
    /\ req.userId \notin MemberSet(chats[req.chatId])
    /\ \E i \in 1 .. Len(req.memberIds) : req.memberIds[i].hex = req.userId
    /\ res.status = 403

PositionByUpdatedAt(chatId) == CHOOSE i \in 1 .. Len(byUpdatedAt) : byUpdatedAt[i] = chatId

\* The list a getChatsList request was answered with holds the chats the requester
\* is a member of, each once, the one written to last first.
ListIsMemberChatsLatestFirst ==
    req.op = "getChatsList" =>
        /\ res.status = 200
        /\ {res.body[i]._id : i \in 1 .. Len(res.body)}
               = {c \in 1 .. Len(chats) : req.userId \in MemberSet(chats[c])}
        /\ \A i, j \in 1 .. Len(res.body) :
               i < j => PositionByUpdatedAt(res.body[i]._id) < PositionByUpdatedAt(res.body[j]._id)

\* The step created a chat, or added members to, removed a member from or renamed
\* the chat of the request, with success.
UpdatedChat(request, response) ==
    \/ request.op = "createChat" /\ response.status = 201
    \/ request.op \in {"addMembersToGroupChat", "leaveGroupChat", "renameGroupChat"}
           /\ response.status = 200

\* C22: listChats returns exactly the chats the requester is a member of, and a chat
\* whose last creation, addMembers, leaveChat or renameChat is more recent comes
\* before a chat updated earlier: every such request makes its chat the first.
C22_ListedByLastUpdate ==
    /\ []ListIsMemberChatsLatestFirst
    /\ [][UpdatedChat(req', res')
           => Head(byUpdatedAt') = (IF req'.op = "createChat" THEN Len(chats') ELSE req'.chatId)
         ]_vars

\* C22, amended: listChats returns exactly the chats the requester is a member of,
\* latest update first, where an update is a creation, an addMembers, a leaveChat
\* or a renameChat that changes the name; a renameChat to the name the chat has
\* answers 200 and leaves the order as it was.
C22_ListedByLastChange ==
    /\ []ListIsMemberChatsLatestFirst
    /\ [][(UpdatedChat(req', res') /\ req'.op # "renameGroupChat")
           => Head(byUpdatedAt') = (IF req'.op = "createChat" THEN Len(chats') ELSE req'.chatId)
         ]_vars
    /\ [][(UpdatedChat(req', res') /\ req'.op = "renameGroupChat")
           => IF chats'[req'.chatId].name # chats[req'.chatId].name
              THEN Head(byUpdatedAt') = req'.chatId
              ELSE byUpdatedAt' = byUpdatedAt
         ]_vars

\* C22 witness: a user listed two chats and got the one created first before the
\* one created second, after a later write to the first.
C22_Witness ==
    /\ req.op = "getChatsList"
    /\ Len(res.body) = 2
    /\ res.body[1]._id = 1
    /\ res.body[2]._id = 2

\* C23: a sendMessage with an image whose upload to the asset host fails is answered
\* with an error status and leaves the message store as it was.
C23_FailedUploadStoresNothing ==
    [][(req'.op = "sendChatMessage" /\ req'.uploadFailed)
        => /\ res'.status >= 400
           /\ messages' = messages
           /\ nextMessageId' = nextMessageId
      ]_vars

\* C23 witness: a message with a text and an image was sent, the upload failed and
\* the answer was 500.
C23_Witness ==
    /\ req.op = "sendChatMessage"
    /\ req.uploadFailed
    /\ Truthy(req.text)
    /\ res.status = 500

\* C24: whenever the response of a signup sets a session cookie for a user ID, a
\* user with that ID is in the store when the response is sent.
C24_TokenOnlyForPersistedUser ==
    (req.op = "signup" /\ setCookie # NoToken) => setCookie.userId \in users

\* t is s without the whitespace at its two ends.
IsTrimmed(t, s) ==
    /\ t = <<>> \/ (Head(t) # " " /\ t[Len(t)] # " ")
    /\ \E a, b \in 0 .. Len(s) :
           /\ a + b <= Len(s)
           /\ \A i \in 1 .. a : s[i] = " "
           /\ \A i \in (Len(s) - b + 1) .. Len(s) : s[i] = " "
           /\ t = SubSeq(s, a + 1, Len(s) - b)

\* C25: no sendMessage, editMessage or deleteMessage changes the senderId, the chatId
\* or the image of a stored message; a successful editMessage sets the text of its
\* message to the trimmed new text and changes nothing else in the store.
C25_EditChangesOnlyText ==
    /\ [][\A i \in 1 .. Len(messages), j \in 1 .. Len(messages') :
              messages[i]._id = messages'[j]._id
                  => /\ messages'[j].senderId = messages[i].senderId
                     /\ messages'[j].chatId = messages[i].chatId
                     /\ messages'[j].image = messages[i].image
         ]_vars
    /\ [][(req'.op = "editMessage" /\ res'.status = 200)
           => /\ Len(messages') = Len(messages)
              /\ \A i \in 1 .. Len(messages) :
                     IF messages[i]._id = req'.messageId
                     THEN /\ messages'[i].text.type = "string"
                          /\ IsTrimmed(messages'[i].text.chars, req'.text.chars)
                          /\ messages'[i] = [messages[i] EXCEPT !.text = messages'[i].text]
                     ELSE messages'[i] = messages[i]
         ]_vars

\* C25 witness: a message was edited to a text with a leading blank and is stored
\* with the text without it, next to another message.
C25_Witness ==
    /\ req.op = "editMessage"
    /\ res.status = 200
    /\ req.text = Str(<<" ", "b">>)
    /\ StoredMessage(req.messageId).text = Str(<<"b">>)
    /\ Len(messages) = 2

\* C26: every stored group chat has a name that is non-empty after trimming and had
\* at least 3 members when it was created; a renameChat with a name that is blank
\* after trimming answers 400, also for a chat that does not exist, and changes
\* no chat.
C26_GroupsNamedAndOfThree ==
    /\ [](\A c \in 1 .. Len(chats) : chats[c].isGroup => Len(Trim(chats[c].name)) > 0)
    /\ [][(req'.op = "createChat" /\ res'.status = 201 /\ req'.isGroup)
           => Cardinality(MemberSet(chats'[Len(chats')])) >= 3
         ]_vars
    /\ [][(req'.op = "renameGroupChat" /\ BlankName(req'.name))
           => /\ res' = Response(400, "Name cannot be empty.", <<>>)
              /\ chats' = chats
         ]_vars

\* The body carries no name with a character that is no blank, no aboutMe and no
\* profilePic.
NothingToUpdate(body) ==
    /\ body.name = Undefined \/ \A i \in 1 .. Len(body.name.chars) : body.name.chars[i] = " "
    /\ body.aboutMe = Undefined
    /\ body.profilePic = Undefined

\* C27: an updateProfile by user u leaves u's email and password hash and every other
\* user as they were; when the body carries no non-blank name, no aboutMe and no
\* profilePic it answers 400 and changes no user; no operation removes a user.
C27_UpdateProfileOwnFieldsOnly ==
    /\ [][req'.op = "updateProfile"
           => /\ users' = users
              /\ \A v \in users : v # req'.userId => accounts'[v] = accounts[v]
              /\ accounts'[req'.userId].email = accounts[req'.userId].email
              /\ accounts'[req'.userId].password = accounts[req'.userId].password
              /\ NothingToUpdate(req'.body)
                     => (res'.status = 400 /\ accounts' = accounts)
         ]_vars
    /\ [][users \subseteq users']_vars

\* C27 witness: one of two users sent a new name together with another email; the
\* trimmed name is stored, the email is the one they signed up with.
C27_Witness ==
    /\ req.op = "updateProfile"
    /\ res.status = 200
    /\ req.body.name = Str(<<" ", "m">>)
    /\ req.body.email = Str(<<"b">>)
    /\ accounts[req.userId].name = <<"m">>
    /\ accounts[req.userId].email = <<"a">>
    /\ Cardinality(users) = 2

\* C28: addMembers and leaveChat requests on one group chat that run at the same
\* time and answer 200 lose no membership update: a leaveChat that answers 200
\* takes nobody but its requester out of the member set the chat has when it
\* saves, so a member added between its read and its save is still a member.
C28_NoLostMembershipUpdate ==
    [][(req'.op = "leaveGroupChat" /\ res'.status = 200)
        => \A member \in MemberSet(chats[req'.chatId]) \ {req'.userId} :
               member \in MemberSet(chats'[req'.chatId])
      ]_vars

\* C28, amended: a successful addMembers adds its IDs to the member set the chat has
\* at that moment and removes nobody; a leaveChat that answers 200 stores the
\* member set it read, without its requester: it brings back nobody who has left
\* since, and it drops whoever was added since.
C28_LeaveSavesWhatItRead ==
    /\ [][(req'.op = "addMembersToGroupChat" /\ res'.status = 200)
           => MemberSet(chats'[req'.chatId])
                  = MemberSet(chats[req'.chatId])
                        \cup {req'.memberIds[i].hex : i \in 1 .. Len(req'.memberIds)}
         ]_vars
    /\ [][(req'.op = "leaveGroupChat" /\ res'.status = 200 /\ Len(leaving') < Len(leaving))
           => /\ \E i \in 1 .. Len(leaving) :
                     /\ leaving[i].userId = req'.userId
                     /\ leaving[i].chatId = req'.chatId
                     /\ MemberSet(chats'[req'.chatId])
                            = Range(leaving[i].members) \ {req'.userId}
              /\ MemberSet(chats'[req'.chatId])
                     \subseteq MemberSet(chats[req'.chatId]) \ {req'.userId}
         ]_vars

\* C28 witness: an addMembers answered 200 on a chat of which a leaveChat that has
\* not saved yet holds the member array from before.
C28_Witness ==
    /\ req.op = "addMembersToGroupChat"
    /\ res.status = 200
    /\ \E i \in 1 .. Len(leaving) :
           /\ leaving[i].chatId = req.chatId
           /\ leaving[i].upToDate
           /\ Range(leaving[i].members) # MemberSet(chats[req.chatId])

\* C29: the chatId of every stored message is the ID of a stored chat.
C29_MessagesBelongToStoredChats ==
    \A i \in 1 .. Len(messages) : ChatExists(messages[i].chatId)

\* C30: every ID in the member array of every stored chat is the ID of a stored
\* user.
C30_MembersAreStoredUsers ==
    \A c \in 1 .. Len(chats) : MemberSet(chats[c]) \subseteq users
====
